---- MODULE Spec2Model ----
(***************************************************************************)
(* A model of src/src/gfa.rs: the GFA record and optional-field types,     *)
(* the Orientation conversions, OptionalField's Display, and the record    *)
(* constructors Segment::new, Link::new and Path::new.                     *)
(*                                                                         *)
(* The library is a set of pure functions.  Each one is an operator, and   *)
(* a client calls them: a state holds the function being called (op), its  *)
(* argument (arg), what it returned (ret), and the call made just before   *)
(* (prev) when the argument of this call is that call's result.  A Rust    *)
(* String is a sequence of chars; a char is a one-element TLA+ string,     *)
(* except the two-byte char U+00E9, written "u00E9".                       *)
(***************************************************************************)
EXTENDS Integers, Sequences, FiniteSets, TLC

VARIABLES op, arg, ret, pc, prev, overflow_checks

vars == <<op, arg, ret, pc, prev, overflow_checks>>

(***************************************************************************)
(* Bounds of the inputs the client draws.                                  *)
(***************************************************************************)
MaxOrientLen == 3      \* longest text handed to Orientation::from_str
MaxTokenLen == 2       \* longest segment token handed to Path::new
MaxTokens == 2         \* longest token list handed to Path::new
MaxOverlaps == 2       \* longest overlaps list handed to Path::new
MaxArrayLen == 2       \* longest ByteArray / IntArray / FloatArray
MaxTextLen == 2        \* longest printable string / JSON text
MaxInt == 11           \* integers range over -MaxInt..MaxInt
MaxDigit == 16         \* ByteArray elements range over 0..MaxDigit
MaxQuarters == 5       \* finite floats range over -MaxQuarters/4..MaxQuarters/4

(***************************************************************************)
(* Strings.                                                                *)
(***************************************************************************)
\* every string of at most n chars over the alphabet
Strs(alphabet, n) == UNION {[1..k -> alphabet] : k \in 0..n}

\* every list of at most n elements of S
Lists(S, n) == UNION {[1..k -> S] : k \in 0..n}

\* chars of the texts handed to the parsers: a plain ASCII char, the two
\* orientation markers, and a char whose UTF-8 encoding takes two bytes
TokenChars == {"1", "+", "-", "u00E9"}

\* the number of bytes of a char's UTF-8 encoding
Utf8Len(c) == IF c = "u00E9" THEN 2 ELSE 1

RECURSIVE StrLen(_)
\* str::len: the length in bytes
StrLen(s) == IF s = <<>> THEN 0 ELSE Utf8Len(Head(s)) + StrLen(Tail(s))

(***************************************************************************)
(* What a call produces.                                                   *)
(***************************************************************************)
Pending == [kind |-> "pending"]
Value(v) == [kind |-> "value", val |-> v]
Ok(v) == [kind |-> "Ok", val |-> v]
Err(m) == [kind |-> "Err", msg |-> m]
Panic(m) == [kind |-> "panic", msg |-> m]
None == [some |-> FALSE]
Some(v) == [some |-> TRUE, val |-> v]

NoCall == [op |-> "none"]
ThisCall == [op |-> op, arg |-> arg, ret |-> ret]

(***************************************************************************)
(* Orientation.                                                            *)
(***************************************************************************)
Orientation == {"Forward", "Backward"}

OrientationDefault == "Forward"

\* from_str as it would be with the default standing in for a bad text
FromStrDefaulting(s) ==
    IF s = <<"+">> THEN Ok("Forward")
    ELSE IF s = <<"-">> THEN Ok("Backward")
    ELSE Ok(OrientationDefault)

FromStr(s) ==
    IF s = <<"+">> THEN Ok("Forward")
    ELSE IF s = <<"-">> THEN Ok("Backward")
    ELSE Err("Could not parse orientation (was not + or -)")

\* is_reverse with the two arms exchanged
IsReverseExchanged(o) == IF o = "Forward" THEN TRUE ELSE FALSE

is_reverse(o) == IF o = "Forward" THEN FALSE ELSE TRUE

\* Display writing '+' for both variants
OrientationFmtAlwaysPlus(o) == IF o = "Forward" THEN <<"+">> ELSE <<"+">>

OrientationFmt(o) == IF o = "Forward" THEN <<"+">> ELSE <<"-">>

\* the texts the client may hand to from_str in this state: the one it
\* drew, or the text Display just produced
FromStrInputs ==
    IF pc = "call" /\ op = "from_str" THEN {arg}
    ELSE IF pc = "ret" /\ op = "orientation_fmt" THEN {ret.val}
    ELSE {}

\* the orientations the client holds in this state: the one it drew, or
\* the one from_str or default just produced
HeldOrientations(o) ==
    IF pc = "call" /\ op = o THEN {arg}
    ELSE IF pc = "ret" /\ op = "from_str" /\ ret.kind = "Ok" THEN {ret.val}
    ELSE IF pc = "ret" /\ op = "default" THEN {ret.val}
    ELSE {}

Chain == IF pc = "ret" THEN ThisCall ELSE NoCall

Return(o, a, r) ==
    /\ prev' = Chain
    /\ op' = o
    /\ arg' = a
    /\ ret' = r
    /\ pc' = "ret"
    /\ UNCHANGED overflow_checks

Orientation_from_str ==
    \E s \in FromStrInputs : Return("from_str", s, FromStr(s))

Orientation_fmt ==
    \E o \in HeldOrientations("orientation_fmt") :
        Return("orientation_fmt", o, Value(OrientationFmt(o)))

Orientation_is_reverse ==
    \E o \in HeldOrientations("is_reverse") :
        Return("is_reverse", o, Value(is_reverse(o)))

Orientation_default ==
    /\ pc = "call"
    /\ op = "default"
    /\ Return("default", <<>>, Value(OrientationDefault))

InitOrientation ==
    /\ pc = "call"
    /\ ret = Pending
    /\ prev = NoCall
    /\ overflow_checks \in BOOLEAN
    /\ \/ op = "from_str" /\ arg \in Strs(TokenChars, MaxOrientLen)
       \/ op = "orientation_fmt" /\ arg \in Orientation
       \/ op = "is_reverse" /\ arg \in Orientation
       \/ op = "default" /\ arg = <<>>

NextOrientation ==
    \/ Orientation_from_str
    \/ Orientation_fmt
    \/ Orientation_is_reverse
    \/ Orientation_default

SpecOrientation == InitOrientation /\ [][NextOrientation]_vars

(***************************************************************************)
(* OptionalField and its Display.                                          *)
(***************************************************************************)
Digits == <<"0", "1", "2", "3", "4", "5", "6", "7", "8", "9",
            "a", "b", "c", "d", "e", "f", "g", "h", "i", "j",
            "k", "l", "m", "n", "o", "p", "q", "r", "s", "t",
            "u", "v", "w", "x", "y", "z">>

\* std::char::from_digit: the digit of num in the radix, None when num is
\* no digit of that radix
from_digit(num, radix) ==
    IF num < radix THEN Some(Digits[num + 1]) ELSE None

RECURSIVE NatToString(_)
NatToString(n) ==
    IF n < 10 THEN <<Digits[n + 1]>>
    ELSE NatToString(n \div 10) \o <<Digits[(n % 10) + 1]>>

\* i64::to_string
I64ToString(i) == IF i < 0 THEN <<"-">> \o NatToString(-i) ELSE NatToString(i)

\* The f32 values of the model: NaN, the two infinities, and the multiples
\* of 1/4 (exact in f32) other than negative zero.
NaN == [class |-> "nan"]
Infinity(neg) == [class |-> "inf", neg |-> neg]
Finite(neg, quarters) == [class |-> "finite", neg |-> neg, quarters |-> quarters]

\* f32::to_string: the shortest decimal text that reads back as the value,
\* without exponent and without a fraction for whole numbers
F32ToString(x) ==
    IF x.class = "nan" THEN <<"N", "a", "N">>
    ELSE IF x.class = "inf"
    THEN (IF x.neg THEN <<"-">> ELSE <<>>) \o <<"i", "n", "f">>
    ELSE (IF x.neg THEN <<"-">> ELSE <<>>)
             \o NatToString(x.quarters \div 4)
             \o (CASE x.quarters % 4 = 0 -> <<>>
                   [] x.quarters % 4 = 1 -> <<".", "2", "5">>
                   [] x.quarters % 4 = 2 -> <<".", "5">>
                   [] x.quarters % 4 = 3 -> <<".", "7", "5">>)

PrintableChar(c) == [kind |-> "PrintableChar", v |-> c]
SignedInt(i) == [kind |-> "SignedInt", v |-> i]
Float(d) == [kind |-> "Float", v |-> d]
PrintableString(s) == [kind |-> "PrintableString", v |-> s]
JSON(s) == [kind |-> "JSON", v |-> s]
ByteArray(a) == [kind |-> "ByteArray", v |-> a]
IntArray(a) == [kind |-> "IntArray", v |-> a]
FloatArray(a) == [kind |-> "FloatArray", v |-> a]

OptionalFieldNew(tag, content) == [tag |-> tag, content |-> content]

RECURSIVE PushDigitsRadix10(_, _)
\* the ByteArray arm's loop with the digits taken in radix 10
PushDigitsRadix10(array_str, a) ==
    IF a = <<>> THEN Value(array_str)
    ELSE LET d == from_digit(Head(a), 10)
         IN  IF d.some THEN PushDigitsRadix10(Append(array_str, d.val), Tail(a))
             ELSE Panic("called Option::unwrap() on a None value")

RECURSIVE PushDigits(_, _)
\* the ByteArray arm's loop: array_str after pushing the hex digit of every
\* element of a, or the panic of unwrap on an element that has none
PushDigits(array_str, a) ==
    IF a = <<>> THEN Value(array_str)
    ELSE LET d == from_digit(Head(a), 16)
         IN  IF d.some THEN PushDigits(Append(array_str, d.val), Tail(a))
             ELSE Panic("called Option::unwrap() on a None value")

RECURSIVE PushIntsCommaFirst(_, _, _)
\* the IntArray arm's loop with the comma pushed before every element
PushIntsCommaFirst(array_str, a, i) ==
    IF i >= Len(a) THEN array_str
    ELSE PushIntsCommaFirst((IF i >= 0 THEN array_str \o <<",">> ELSE array_str)
                                \o I64ToString(a[i + 1]), a, i + 1)

RECURSIVE PushInts(_, _, _)
\* the IntArray arm's loop from index i (counted from 0, as enumerate does)
PushInts(array_str, a, i) ==
    IF i >= Len(a) THEN array_str
    ELSE PushInts((IF i > 0 THEN array_str \o <<",">> ELSE array_str)
                      \o I64ToString(a[i + 1]), a, i + 1)

RECURSIVE PushFloats(_, _, _)
\* the FloatArray arm's loop from index i
PushFloats(array_str, a, i) ==
    IF i >= Len(a) THEN array_str
    ELSE PushFloats((IF i > 0 THEN array_str \o <<",">> ELSE array_str)
                        \o F32ToString(a[i + 1]), a, i + 1)

\* Display with the JSON arm writing the code of PrintableString
OptionalFieldFmtJsonAsZ(field) ==
    LET written == field.tag \o <<":">>
        c == field.content
    IN  CASE c.kind = "PrintableChar" ->
                 Value(written \o <<"A", ":">> \o <<c.v>>)
          [] c.kind = "SignedInt" ->
                 Value(written \o <<"i", ":">> \o I64ToString(c.v))
          [] c.kind = "Float" ->
                 Value(written \o <<"f", ":">> \o F32ToString(c.v))
          [] c.kind = "PrintableString" ->
                 Value(written \o <<"Z", ":">> \o c.v)
          [] c.kind = "JSON" ->
                 Value(written \o <<"Z", ":">> \o c.v)
          [] c.kind = "ByteArray" ->
                 LET array_str == PushDigits(<<>>, c.v)
                 IN  IF array_str.kind = "panic" THEN array_str
                     ELSE Value(written \o <<"H", ":">> \o array_str.val)
          [] c.kind = "IntArray" ->
                 Value(written \o <<"B", ":", "I">> \o PushInts(<<>>, c.v, 0))
          [] c.kind = "FloatArray" ->
                 Value(written \o <<"B", ":", "f">> \o PushFloats(<<>>, c.v, 0))

\* <OptionalField as Display>::fmt into a String, as to_string runs it
OptionalFieldFmt(field) ==
    LET written == field.tag \o <<":">>
        c == field.content
    IN  CASE c.kind = "PrintableChar" ->
                 Value(written \o <<"A", ":">> \o <<c.v>>)
          [] c.kind = "SignedInt" ->
                 Value(written \o <<"i", ":">> \o I64ToString(c.v))
          [] c.kind = "Float" ->
                 Value(written \o <<"f", ":">> \o F32ToString(c.v))
          [] c.kind = "PrintableString" ->
                 Value(written \o <<"Z", ":">> \o c.v)
          [] c.kind = "JSON" ->
                 Value(written \o <<"J", ":">> \o c.v)
          [] c.kind = "ByteArray" ->
                 LET array_str == PushDigits(<<>>, c.v)
                 IN  IF array_str.kind = "panic" THEN array_str
                     ELSE Value(written \o <<"H", ":">> \o array_str.val)
          [] c.kind = "IntArray" ->
                 Value(written \o <<"B", ":", "I">> \o PushInts(<<>>, c.v, 0))
          [] c.kind = "FloatArray" ->
                 Value(written \o <<"B", ":", "f">> \o PushFloats(<<>>, c.v, 0))

\* chars of tags, printable strings and JSON texts
TextChars == {"a", ":", ","}

Tags == {<<>>, <<"a", "a">>, <<":", "B", ":">>}

Texts == Strs(TextChars, MaxTextLen)

I64s == (0 - MaxInt)..MaxInt

U32s == 0..MaxDigit

F32s == {NaN} \cup {Infinity(n) : n \in BOOLEAN}
            \cup {Finite(FALSE, q) : q \in 0..MaxQuarters}
            \cup {Finite(TRUE, q) : q \in 1..MaxQuarters}

\* the arrays of the examples of the format's documentation
ExampleContents ==
    { ByteArray(<<1, 10, 15>>), ByteArray(<<1, 10, 2, 11>>),
      IntArray(<<1, -2, 3>>), SignedInt(-42),
      FloatArray(<<Finite(FALSE, 4), Finite(FALSE, 10)>>) }

OptionalFieldValues ==
    {PrintableChar(c) : c \in TextChars \cup TokenChars}
        \cup {SignedInt(i) : i \in I64s}
        \cup {Float(d) : d \in F32s}
        \cup {PrintableString(s) : s \in Texts}
        \cup {JSON(s) : s \in Texts}
        \cup {ByteArray(a) : a \in Lists(U32s, MaxArrayLen)}
        \cup {IntArray(a) : a \in Lists(I64s, MaxArrayLen)}
        \cup {FloatArray(a) : a \in Lists(F32s, MaxArrayLen)}
        \cup ExampleContents

OptionalField_new ==
    /\ pc = "call"
    /\ op = "optional_field_new"
    /\ Return("optional_field_new", arg, Value(OptionalFieldNew(arg.tag, arg.content)))

OptionalField_fmt ==
    /\ pc = "ret"
    /\ op = "optional_field_new"
    /\ Return("optional_field_fmt", ret.val, OptionalFieldFmt(ret.val))

InitField ==
    /\ pc = "call"
    /\ ret = Pending
    /\ prev = NoCall
    /\ overflow_checks \in BOOLEAN
    /\ op = "optional_field_new"
    /\ arg \in [tag : Tags, content : OptionalFieldValues]

NextField ==
    \/ OptionalField_new
    \/ OptionalField_fmt

SpecField == InitField /\ [][NextField]_vars

(***************************************************************************)
(* Segment and Link.                                                       *)
(***************************************************************************)
\* #[derive(Default)] of Segment
SegmentDefault ==
    [ name |-> <<>>, sequence |-> <<>>,
      segment_length |-> None, read_count |-> None, fragment_count |-> None,
      kmer_count |-> None, sha256 |-> None, uri |-> None,
      optional_fields |-> <<>> ]

SegmentNew(name, sequence) ==
    [SegmentDefault EXCEPT !.name = name, !.sequence = sequence]

\* #[derive(Default)] of Link
LinkDefault ==
    [ from_segment |-> <<>>, from_orient |-> OrientationDefault,
      to_segment |-> <<>>, to_orient |-> OrientationDefault,
      overlap |-> <<>>,
      map_quality |-> None, num_mismatches |-> None, read_count |-> None,
      fragment_count |-> None, kmer_count |-> None, edge_id |-> None,
      optional_fields |-> <<>> ]

\* Link::new leaving from_orient to ..Default::default()
LinkNewFromOrientDefaulted(from_segment, from_orient, to_segment, to_orient, overlap) ==
    [LinkDefault EXCEPT !.from_segment = from_segment,
                        !.to_segment = to_segment,
                        !.to_orient = to_orient,
                        !.overlap = overlap]

LinkNew(from_segment, from_orient, to_segment, to_orient, overlap) ==
    [LinkDefault EXCEPT !.from_segment = from_segment,
                        !.from_orient = from_orient,
                        !.to_segment = to_segment,
                        !.to_orient = to_orient,
                        !.overlap = overlap]

Segment_new ==
    /\ pc = "call"
    /\ op = "segment_new"
    /\ Return("segment_new", arg, Value(SegmentNew(arg.name, arg.sequence)))

Link_new ==
    /\ pc = "call"
    /\ op = "link_new"
    /\ Return("link_new", arg,
              Value(LinkNew(arg.from_segment, arg.from_orient,
                            arg.to_segment, arg.to_orient, arg.overlap)))

InitRecords ==
    /\ pc = "call"
    /\ ret = Pending
    /\ prev = NoCall
    /\ overflow_checks \in BOOLEAN
    /\ \/ /\ op = "segment_new"
          /\ arg \in [name : Texts, sequence : Texts]
       \/ /\ op = "link_new"
          /\ arg \in [ from_segment : Texts, from_orient : Orientation,
                       to_segment : Texts, to_orient : Orientation,
                       overlap : Texts ]

NextRecords ==
    \/ Segment_new
    \/ Link_new

SpecRecords == InitRecords /\ [][NextRecords]_vars

(***************************************************************************)
(* Path.                                                                   *)
(***************************************************************************)
\* usize::MAX.  TLC's integers end at 2^31 - 1, which stands for it: what
\* the model needs of it is that no string is that long.
USIZE_MAX == 2147483647

\* a - b in usize where the build does not check for overflow
WrappingSub(a, b) == IF a >= b THEN a - b ELSE USIZE_MAX - (b - a) + 1

\* str::split_at: the two halves of s around byte offset mid; it panics when
\* mid is past the end of s or inside a char
SplitAt(s, mid) ==
    LET cuts == {k \in 0..Len(s) : StrLen(SubSeq(s, 1, k)) = mid}
    IN  IF cuts = {}
        THEN Panic("byte index is not a char boundary or is out of bounds")
        ELSE LET k == CHOOSE c \in cuts : TRUE
             IN  Value(<<SubSeq(s, 1, k), SubSeq(s, k + 1, Len(s))>>)

\* the closure with unwrap_or_default in the place of unwrap
ParseTokenOrDefault(s) ==
    IF StrLen(s) < 1 /\ overflow_checks
    THEN Panic("attempt to subtract with overflow")
    ELSE LET halves == SplitAt(s, WrappingSub(StrLen(s), 1))
         IN  IF halves.kind = "panic" THEN halves
             ELSE LET n == halves.val[1]
                      o == halves.val[2]
                      orientation == FromStr(o)
                  IN  IF orientation.kind = "Err"
                      THEN Value(<<n, OrientationDefault>>)
                      ELSE Value(<<n, orientation.val>>)

\* the closure Path::new maps over the tokens
ParseToken(s) ==
    IF StrLen(s) < 1 /\ overflow_checks
    THEN Panic("attempt to subtract with overflow")
    ELSE LET halves == SplitAt(s, WrappingSub(StrLen(s), 1))
         IN  IF halves.kind = "panic" THEN halves
             ELSE LET n == halves.val[1]
                      o == halves.val[2]
                      orientation == FromStr(o)
                  IN  IF orientation.kind = "Err"
                      THEN Panic("called Result::unwrap() on an Err value")
                      ELSE Value(<<n, orientation.val>>)

RECURSIVE CollectReversed(_, _)
\* collect with every pair put in front of the ones before it
CollectReversed(segment_names, seg_names) ==
    IF seg_names = <<>> THEN Value(segment_names)
    ELSE LET pair == ParseToken(Head(seg_names))
         IN  IF pair.kind = "panic" THEN pair
             ELSE CollectReversed(<<pair.val>> \o segment_names, Tail(seg_names))

RECURSIVE Collect(_, _)
\* seg_names.iter().map(..).collect(): the pairs of the tokens in order,
\* or the panic of the first token that has none
Collect(segment_names, seg_names) ==
    IF seg_names = <<>> THEN Value(segment_names)
    ELSE LET pair == ParseToken(Head(seg_names))
         IN  IF pair.kind = "panic" THEN pair
             ELSE Collect(Append(segment_names, pair.val), Tail(seg_names))

PathNew(path_name, seg_names, overlaps) ==
    LET segment_names == Collect(<<>>, seg_names)
    IN  IF segment_names.kind = "panic" THEN segment_names
        ELSE Value([ path_name |-> path_name,
                     segment_names |-> segment_names.val,
                     overlaps |-> overlaps,
                     optional_fields |-> <<>> ])

\* the tokens the client draws: every short text of plain chars and
\* orientation markers, and the ones with a two-byte char
Tokens ==
    Strs({"1", "+", "-"}, MaxTokenLen)
        \cup { <<"u00E9">>, <<"u00E9", "+">>, <<"1", "u00E9">>,
               <<"+", "u00E9">>, <<"u00E9", "u00E9", "-">> }

Overlaps == {<<"8", "M">>, <<>>}

\* the call of the test create_path
CreatePathArg ==
    [ path_name |-> <<"p", "a", "t", "h", "1">>,
      seg_names |-> << <<"1", "+">>, <<"2", "-">>, <<"1", "3", "-">>,
                       <<"6", "0", "+">> >>,
      overlaps |-> << <<"8", "M">>, <<"1", "0", "M">>, <<"0", "M">>,
                      <<"2", "M">> >> ]

Path_new ==
    /\ pc = "call"
    /\ op = "path_new"
    /\ Return("path_new", arg, PathNew(arg.path_name, arg.seg_names, arg.overlaps))

InitPath ==
    /\ pc = "call"
    /\ ret = Pending
    /\ prev = NoCall
    /\ overflow_checks \in BOOLEAN
    /\ op = "path_new"
    /\ arg \in [ path_name : {<<"p">>},
                 seg_names : Lists(Tokens, MaxTokens),
                 overlaps : Lists(Overlaps, MaxOverlaps) ]
                   \cup {CreatePathArg}

NextPath == Path_new

SpecPath == InitPath /\ [][NextPath]_vars

(***************************************************************************)
(* The library as a whole.                                                 *)
(***************************************************************************)
Init == InitOrientation \/ InitField \/ InitRecords \/ InitPath

Next == NextOrientation \/ NextField \/ NextRecords \/ NextPath

Spec == Init /\ [][Next]_vars

(***************************************************************************)
(* The properties.                                                         *)
(***************************************************************************)
Returned(o) == pc = "ret" /\ op = o

\* a token Path::new is meant for: a name, then '+' or '-'
WellFormed(t) == Len(t) >= 1 /\ t[Len(t)] \in {"+", "-"}

\* the pair a well-formed token stands for
PairOf(t) ==
    <<SubSeq(t, 1, Len(t) - 1), IF t[Len(t)] = "+" THEN "Forward" ELSE "Backward">>

\* C1: when every token is a name followed by '+' or '-', Path::new returns
\* a Path with the given name, one pair per token in the tokens' order (the
\* token without its final char, Forward for '+' and Backward for '-'), the
\* overlaps as supplied, whatever their number, and no optional field.
C1_PathNewBuildsThePath ==
    (Returned("path_new") /\ \A k \in 1..Len(arg.seg_names) : WellFormed(arg.seg_names[k]))
        => /\ ret.kind = "value"
           /\ ret.val.path_name = arg.path_name
           /\ Len(ret.val.segment_names) = Len(arg.seg_names)
           /\ \A k \in 1..Len(arg.seg_names) :
                  ret.val.segment_names[k] = PairOf(arg.seg_names[k])
           /\ ret.val.overlaps = arg.overlaps
           /\ ret.val.optional_fields = <<>>

\* a path of two segments, the first with an empty name, and one overlap
C1_Witness ==
    /\ Returned("path_new")
    /\ arg.seg_names = << <<"-">>, <<"1", "+">> >>
    /\ Len(arg.overlaps) = 1
    /\ ret.kind = "value"
    /\ ret.val.segment_names = << <<<<>>, "Backward">>, <<<<"1">>, "Forward">> >>

\* C2: from_str returns Ok(Forward) for "+", Ok(Backward) for "-", and an
\* error, never an orientation, for every other text.
C2_FromStrAcceptsOnlyPlusAndMinus ==
    Returned("from_str")
        => /\ arg = <<"+">> => ret = Ok("Forward")
           /\ arg = <<"-">> => ret = Ok("Backward")
           /\ arg \notin {<<"+">>, <<"-">>} => ret.kind = "Err"

C2_Witness ==
    /\ Returned("from_str")
    /\ arg = <<"+", "+">>
    /\ ret.kind = "Err"

\* C3: parsing the text Display wrote for an orientation gives that
\* orientation back, and Display of the orientation parsed from "+" or "-"
\* writes that text again.
C3_FmtAndFromStrAreInverse ==
    /\ (Returned("from_str") /\ prev.op = "orientation_fmt") => ret = Ok(prev.arg)
    /\ (Returned("orientation_fmt") /\ prev.op = "from_str") => ret = Value(prev.arg)

C3_Witness ==
    /\ Returned("from_str")
    /\ prev.op = "orientation_fmt"
    /\ prev.arg = "Backward"
    /\ ret = Ok("Backward")

\* C4: Display of an OptionalField always produces text.
C4_FmtNeverFails ==
    Returned("optional_field_fmt") => ret.kind = "value"

\* the type code the format gives each variant
TypeCode(kind) ==
    CASE kind = "PrintableChar" -> <<"A", ":">>
      [] kind = "SignedInt" -> <<"i", ":">>
      [] kind = "Float" -> <<"f", ":">>
      [] kind = "PrintableString" -> <<"Z", ":">>
      [] kind = "JSON" -> <<"J", ":">>
      [] kind = "ByteArray" -> <<"H", ":">>
      [] kind = "IntArray" -> <<"B", ":", "I">>
      [] kind = "FloatArray" -> <<"B", ":", "f">>

Variants ==
    { "PrintableChar", "SignedInt", "Float", "PrintableString", "JSON",
      "ByteArray", "IntArray", "FloatArray" }

StartsWith(s, p) == Len(s) >= Len(p) /\ SubSeq(s, 1, Len(p)) = p

\* the text after the tag and its colon
AfterTag(text, tag) == SubSeq(text, Len(tag) + 2, Len(text))

\* C5: the text Display produces is the tag, ':', the type code of the
\* variant and the value: A, i, f, Z, J and H each followed by ':' for the
\* scalars and the byte array, B:I and B:f for the arrays; the string of a
\* PrintableString or JSON and the char of a PrintableChar are written as
\* they are; the code of no other variant starts the text after the tag.
C5_FmtWritesTagAndTypeCode ==
    (Returned("optional_field_fmt") /\ ret.kind = "value")
        => LET tag == arg.tag
               c == arg.content
               rest == AfterTag(ret.val, tag)
           IN  /\ StartsWith(ret.val, tag \o <<":">> \o TypeCode(c.kind))
               /\ \A w \in Variants : StartsWith(rest, TypeCode(w)) <=> w = c.kind
               /\ c.kind = "PrintableChar" => ret.val = tag \o <<":", "A", ":">> \o <<c.v>>
               /\ c.kind = "SignedInt" => ret.val = tag \o <<":", "i", ":">> \o I64ToString(c.v)
               /\ c.kind = "Float" => ret.val = tag \o <<":", "f", ":">> \o F32ToString(c.v)
               /\ c.kind = "PrintableString" => ret.val = tag \o <<":", "Z", ":">> \o c.v
               /\ c.kind = "JSON" => ret.val = tag \o <<":", "J", ":">> \o c.v

C5_Witness ==
    /\ Returned("optional_field_fmt")
    /\ arg.content.kind = "JSON"
    /\ arg.tag = <<":", "B", ":">>
    /\ ret = Value(<<":", "B", ":", ":", "J", ":", "a", ",">>)

LowerHex ==
    <<"0", "1", "2", "3", "4", "5", "6", "7", "8", "9", "a", "b", "c", "d", "e", "f">>

\* C6: a ByteArray whose elements are all in 0..15 is written as "H:" and
\* one lowercase hex digit per element, in order, with nothing between.
C6_ByteArrayIsOneHexDigitPerElement ==
    (/\ Returned("optional_field_fmt")
     /\ arg.content.kind = "ByteArray"
     /\ \A k \in 1..Len(arg.content.v) : arg.content.v[k] \in 0..15)
        => /\ ret.kind = "value"
           /\ ret.val = arg.tag \o <<":", "H", ":">>
                            \o [k \in 1..Len(arg.content.v) |-> LowerHex[arg.content.v[k] + 1]]

C6_Witness ==
    /\ Returned("optional_field_fmt")
    /\ arg.content.kind = "ByteArray"
    /\ arg.content.v = <<1, 10, 15>>
    /\ arg.tag = <<"a", "a">>
    /\ ret = Value(<<"a", "a", ":", "H", ":", "1", "a", "f">>)

RECURSIVE JoinWithCommas(_)
\* the texts with one comma between each two
JoinWithCommas(ss) ==
    IF ss = <<>> THEN <<>>
    ELSE IF Len(ss) = 1 THEN Head(ss)
    ELSE Head(ss) \o <<",">> \o JoinWithCommas(Tail(ss))

Commas(s) == Cardinality({k \in 1..Len(s) : s[k] = ","})

\* C7: an IntArray (a FloatArray) of n elements is written as "B:I" ("B:f")
\* and the elements' decimal texts in order with one comma between each two:
\* n - 1 commas, none first or last, no blank, and nothing when n = 0.
C7_ArraysAreCommaSeparated ==
    (/\ Returned("optional_field_fmt")
     /\ arg.content.kind \in {"IntArray", "FloatArray"})
        => LET a == arg.content.v
               n == Len(a)
               texts == [k \in 1..n |-> IF arg.content.kind = "IntArray"
                                        THEN I64ToString(a[k])
                                        ELSE F32ToString(a[k])]
               values == SubSeq(ret.val, Len(arg.tag) + 5, Len(ret.val))
           IN  /\ ret.kind = "value"
               /\ StartsWith(ret.val, arg.tag \o <<":">> \o TypeCode(arg.content.kind))
               /\ values = JoinWithCommas(texts)
               /\ n = 0 => values = <<>>
               /\ n >= 1 => /\ Commas(values) = n - 1
                            /\ values[1] # ","
                            /\ values[Len(values)] # ","
               /\ \A k \in 1..Len(values) : values[k] # " "

C7_Witness ==
    /\ Returned("optional_field_fmt")
    /\ arg.content = IntArray(<<1, -2, 3>>)
    /\ AfterTag(ret.val, arg.tag) = <<"B", ":", "I", "1", ",", "-", "2", ",", "3">>

\* C8: Path::new panics whenever some token, wherever it stands, is empty
\* or ends in a char other than '+' and '-'.
C8_PathNewFailsOnABadToken ==
    (Returned("path_new") /\ \E k \in 1..Len(arg.seg_names) : ~WellFormed(arg.seg_names[k]))
        => ret.kind = "panic"

\* an empty token after a good one, in a build without overflow checks
C8_Witness ==
    /\ Returned("path_new")
    /\ arg.seg_names = << <<"1", "+">>, <<>> >>
    /\ ~overflow_checks
    /\ ret.kind = "panic"

RECURSIVE AllNone(_, _)
AllNone(r, fields) ==
    fields = <<>> \/ (r[Head(fields)] = None /\ AllNone(r, Tail(fields)))

\* C9: Segment::new and Link::new store their arguments as given, leave the
\* six optional attributes absent and the optional-field list empty.
C9_ConstructorsStoreTheirArguments ==
    /\ Returned("segment_new")
           => /\ ret.val.name = arg.name
              /\ ret.val.sequence = arg.sequence
              /\ AllNone(ret.val, <<"segment_length", "read_count", "fragment_count",
                                    "kmer_count", "sha256", "uri">>)
              /\ ret.val.optional_fields = <<>>
              /\ DOMAIN ret.val = {"name", "sequence", "segment_length", "read_count",
                                   "fragment_count", "kmer_count", "sha256", "uri",
                                   "optional_fields"}
    /\ Returned("link_new")
           => /\ ret.val.from_segment = arg.from_segment
              /\ ret.val.from_orient = arg.from_orient
              /\ ret.val.to_segment = arg.to_segment
              /\ ret.val.to_orient = arg.to_orient
              /\ ret.val.overlap = arg.overlap
              /\ AllNone(ret.val, <<"map_quality", "num_mismatches", "read_count",
                                    "fragment_count", "kmer_count", "edge_id">>)
              /\ ret.val.optional_fields = <<>>

C9_Witness ==
    /\ Returned("link_new")
    /\ arg.from_orient = "Backward"
    /\ arg.to_orient = "Forward"
    /\ arg.overlap = <<>>
    /\ ret.val.from_orient = "Backward"

\* C10: the default orientation is Forward; is_reverse is false for Forward
\* and true for Backward, so false for the default and, for a parsed text,
\* true exactly when the text is "-".
C10_DefaultIsForwardAndIsReverse ==
    /\ Returned("default") => ret = Value("Forward")
    /\ Returned("is_reverse")
           => /\ ret.val = (arg = "Backward")
              /\ prev.op = "default" => ret.val = FALSE
              /\ prev.op = "from_str" => ret.val = (prev.arg = <<"-">>)

C10_Witness ==
    /\ Returned("is_reverse")
    /\ prev.op = "from_str"
    /\ prev.arg = <<"-">>
    /\ ret = Value(TRUE)

====
